---- MODULE Spec2Model ----
(***************************************************************************)
(* A model of the AnkiDeck client (src/AnkiDeck.js).  One client object is *)
(* driven by one caller that invokes the public operations one after       *)
(* another.  Every await of the source is a position (pc); the automation  *)
(* service and the filesystem are black boxes that answer each pending     *)
(* request with any result or with a rejection.                            *)
(***************************************************************************)
EXTENDS Integers, Sequences, FiniteSets, TLC

\* ---- bounds of the model ------------------------------------------------
MaxCards == 2        \* longest card sequence the service returns

\* ---- value domains --------------------------------------------------------
Decks == {"D1", "D2"}
Ids == {1, 2}
FieldNames == {"1", "F"}
Values == {"x", "y"}
Versions == {"6"}
FolderKinds == {"undefined", "empty", "nonstring", "string"}

VARIABLES
  pc,             \* position of the running call ("idle", "done", or an await)
  stack,          \* public operations on the call stack, outermost first
  args,           \* the outermost call: its operation and arguments
  log,            \* events of the outermost call, in order
  inflight,       \* action of the HTTP request / fs operation awaited
  reply,          \* the settled answer to the awaited request
  ret,            \* value getAllCardData returned to getSpecificCardData
  result,         \* value the outermost call returned
  outcome,        \* "pending", "returned" or "threw" (outermost call)
  lastWire,       \* "none", "request" or "delay": what happened last on the wire
  dirnameDefined, \* whether the build defines __dirname (CommonJS) or not (ESM)
  collCopied,     \* this call copied collection.anki2 to the destination
  mediaCopied     \* this call copied the media directory to the destination

vars == <<pc, stack, args, log, inflight, reply, ret, result, outcome,
          lastWire, dirnameDefined, collCopied, mediaCopied>>

\* ---- sequences ------------------------------------------------------------
SeqsUpTo(S, n) == UNION {[1..k -> S] : k \in 0..n}

IsInjective(s) == \A i, j \in DOMAIN s : s[i] = s[j] => i = j

IdSeqs == {s \in SeqsUpTo(Ids, Cardinality(Ids)) : IsInjective(s)}

\* ---- cards ----------------------------------------------------------------
\* A fields mapping is the sequence of its (name, value) entries in the order
\* the service sent them; a card without a fields attribute has hasFields = FALSE.
FieldEntries == [name : FieldNames, value : Values]

FieldMaps == {m \in SeqsUpTo(FieldEntries, Cardinality(FieldNames)) :
                \A i, j \in DOMAIN m : m[i].name = m[j].name => i = j}

Cards == [hasFields : {TRUE}, fields : FieldMaps]
           \cup [hasFields : {FALSE}, fields : {<< >>}]

CardSeqs == SeqsUpTo(Cards, MaxCards)

DeckNameSeqs == {<< >>, <<"D1">>, <<"D1", "D2">>, <<"D2", "D1">>}

\* ---- values returned by the operations ---------------------------------------
Value(t, cards, names, str) == [t |-> t, cards |-> cards, names |-> names, str |-> str]

NoValue == Value("none", << >>, << >>, "")
Undefined == Value("undefined", << >>, << >>, "")
Null == Value("null", << >>, << >>, "")
EmptyArray == Value("array", << >>, << >>, "")
CardArray(cs) == Value("array", cs, << >>, "")
NameArray(ns) == Value("array", << >>, ns, "")
OneCard(c) == Value("card", <<c>>, << >>, "")
Str(s) == Value("string", << >>, << >>, s)

FailureString ==
  "Failed to connect to Anki Connect. Please ensure Anki is open and Anki Connect is installed."

VersionString(v) == "Anki Connect Version: " \o v

\* ---- replies ---------------------------------------------------------------
Reply(st, isNull, ids, cards, names, ver) ==
  [st |-> st, isNull |-> isNull, ids |-> ids, cards |-> cards,
   names |-> names, ver |-> ver]

NoReply == Reply("none", FALSE, << >>, << >>, << >>, "")
Rejected == Reply("err", FALSE, << >>, << >>, << >>, "")
Resolved == Reply("ok", FALSE, << >>, << >>, << >>, "")
NullResult == Reply("ok", TRUE, << >>, << >>, << >>, "")

\* response.data.result of each action of the service
ResultsOf(action) ==
  CASE action = "version" -> {Reply("ok", FALSE, << >>, << >>, << >>, v) : v \in Versions}
    [] action = "deckNames" ->
         {Reply("ok", FALSE, << >>, << >>, ns, "") : ns \in DeckNameSeqs} \cup {NullResult}
    [] action = "findCards" ->
         {Reply("ok", FALSE, ids, << >>, << >>, "") : ids \in IdSeqs} \cup {NullResult}
    [] action = "cardsInfo" ->
         {Reply("ok", FALSE, << >>, cs, << >>, "") : cs \in CardSeqs} \cup {NullResult}
    [] action = "addFieldToDeck" -> {Resolved}
    [] OTHER -> {}

HttpActions == {"version", "deckNames", "findCards", "cardsInfo", "addFieldToDeck"}
FsOps == {"copyFile", "cp"}

\* ---- events ----------------------------------------------------------------
Evt(k, a, ok, isNull, ids, paced) ==
  [k |-> k, a |-> a, ok |-> ok, isNull |-> isNull, ids |-> ids, paced |-> paced]

DelayEvt == Evt("delay", "", TRUE, FALSE, << >>, TRUE)
ReqEvt(a, ids) == Evt("req", a, TRUE, FALSE, ids, lastWire # "request")
RespEvt(a, r) == Evt("resp", a, r.st = "ok", r.isNull, r.ids, TRUE)
CallEvt(a) == Evt("call", a, TRUE, FALSE, << >>, TRUE)
CopyEvt(a) == Evt("copy", a, TRUE, FALSE, << >>, TRUE)

NoArgs ==
  [op |-> "none", deck |-> "", fieldName |-> "", searchVal |-> "",
   folder |-> "undefined"]

\* ---- construction ----------------------------------------------------------
Init ==
  /\ pc = "idle"
  /\ stack = << >>
  /\ args = NoArgs
  /\ log = << >>
  /\ inflight = "none"
  /\ reply = NoReply
  /\ ret = NoValue
  /\ result = NoValue
  /\ outcome = "pending"
  /\ lastWire = "none"
  /\ dirnameDefined \in BOOLEAN
  /\ collCopied = FALSE
  /\ mediaCopied = FALSE

Idle == pc = "idle"

\* a caller invokes a public operation: a fresh call
Enter(op, a, at) ==
  /\ pc' = at
  /\ stack' = <<op>>
  /\ args' = [a EXCEPT !.op = op]
  /\ log' = << >>
  /\ inflight' = "none"
  /\ reply' = NoReply
  /\ ret' = NoValue
  /\ result' = NoValue
  /\ outcome' = "pending"
  /\ collCopied' = FALSE
  /\ mediaCopied' = FALSE
  /\ UNCHANGED <<lastWire, dirnameDefined>>

\* the caller takes the settled promise of the call (await in run()) and
\* goes on; nothing of the call is kept by the client
Caller_Continue ==
  /\ pc = "done"
  /\ pc' = "idle"
  /\ args' = NoArgs
  /\ log' = << >>
  /\ inflight' = "none"
  /\ reply' = NoReply
  /\ ret' = NoValue
  /\ result' = NoValue
  /\ outcome' = "pending"
  /\ collCopied' = FALSE
  /\ mediaCopied' = FALSE
  /\ UNCHANGED <<stack, lastWire, dirnameDefined>>

\* the outermost call returns v
Finish(v) ==
  /\ pc' = "done"
  /\ stack' = << >>
  /\ result' = v
  /\ outcome' = "returned"

\* the outermost call rejects
Throw ==
  /\ pc' = "done"
  /\ stack' = << >>
  /\ result' = NoValue
  /\ outcome' = "threw"

\* axios.post(this.ANKI_CONNECT_URL, {action, ...})
Post(action, ids, at) ==
  /\ pc' = at
  /\ log' = Append(log, ReqEvt(action, ids))
  /\ lastWire' = "request"
  /\ inflight' = action
  /\ reply' = NoReply

\* where each public operation resumes once its delay is over
AfterDelay(p) ==
  CASE p = "cc_delay" -> "cc_post"
    [] p = "dn_delay" -> "dn_post"
    [] p = "gacd_delay" -> "gacd_find"
    [] p = "gfn_delay" -> "gfn_find"
    [] p = "gscd_delay" -> "gscd_call"
    [] p = "cdp_delay" -> "cd_paths"
    [] OTHER -> p

DelayPositions == {"cc_delay", "dn_delay", "gacd_delay", "gfn_delay",
                   "gscd_delay", "cdp_delay"}

\* this._delay(): the timer of delayDuration ms fires
Delay ==
  /\ pc \in DelayPositions
  /\ pc' = AfterDelay(pc)
  /\ log' = Append(log, DelayEvt)
  /\ lastWire' = "delay"
  /\ UNCHANGED <<stack, args, inflight, reply, ret, result, outcome,
                 dirnameDefined, collCopied, mediaCopied>>

\* ---- the automation service ----------------------------------------------------
ServiceRespond ==
  /\ inflight \in HttpActions
  /\ reply.st = "none"
  /\ \E r \in ResultsOf(inflight) :
       /\ reply' = r
       /\ log' = Append(log, RespEvt(inflight, r))
  /\ UNCHANGED <<pc, stack, args, inflight, ret, result, outcome, lastWire,
                 dirnameDefined, collCopied, mediaCopied>>

ServiceReject ==
  /\ inflight \in HttpActions
  /\ reply.st = "none"
  /\ reply' = Rejected
  /\ log' = Append(log, RespEvt(inflight, Rejected))
  /\ UNCHANGED <<pc, stack, args, inflight, ret, result, outcome, lastWire,
                 dirnameDefined, collCopied, mediaCopied>>

\* ---- checkConnection ---------------------------------------------------------
CheckConnection_Call ==
  /\ Idle
  /\ Enter("checkConnection", NoArgs, "cc_delay")

CheckConnection_Post ==
  /\ pc = "cc_post"
  /\ Post("version", << >>, "cc_await")
  /\ UNCHANGED <<stack, args, ret, result, outcome, dirnameDefined,
                 collCopied, mediaCopied>>

CheckConnection_Return ==
  /\ pc = "cc_await"
  /\ reply.st # "none"
  /\ IF reply.st = "ok"
       THEN Finish(Str(VersionString(reply.ver)))
       ELSE Finish(Str(FailureString))
  /\ UNCHANGED <<args, log, inflight, reply, ret, lastWire, dirnameDefined,
                 collCopied, mediaCopied>>

\* ---- getAllDeckNames ---------------------------------------------------------
GetAllDeckNames_Call ==
  /\ Idle
  /\ Enter("getAllDeckNames", NoArgs, "dn_delay")

GetAllDeckNames_Post ==
  /\ pc = "dn_post"
  /\ Post("deckNames", << >>, "dn_await")
  /\ UNCHANGED <<stack, args, ret, result, outcome, dirnameDefined,
                 collCopied, mediaCopied>>

\* mutant: the rejection of the deckNames request is not caught
GetAllDeckNames_Return_Uncaught ==
  /\ pc = "dn_await"
  /\ reply.st # "none"
  /\ IF reply.st = "ok"
       THEN Finish(IF reply.isNull THEN Null ELSE NameArray(reply.names))
       ELSE Throw
  /\ UNCHANGED <<args, log, inflight, reply, ret, lastWire, dirnameDefined,
                 collCopied, mediaCopied>>

GetAllDeckNames_Return ==
  /\ pc = "dn_await"
  /\ reply.st # "none"
  /\ IF reply.st = "ok"
       THEN Finish(IF reply.isNull THEN Null ELSE NameArray(reply.names))
       ELSE Finish(EmptyArray)
  /\ UNCHANGED <<args, log, inflight, reply, ret, lastWire, dirnameDefined,
                 collCopied, mediaCopied>>

\* ---- search-then-fetch (getAllCardData, getFieldNames) ---------------------
\* mutant: only an absent result counts as no cards, an empty one is fetched
NoCardsFound_OnlyAbsent(r) == r.isNull

\* if (!cardIds || cardIds.length === 0)
NoCardsFound(r) == r.isNull \/ Len(r.ids) = 0

\* getAllCardData returns v: to the caller of the public operation, or to
\* getSpecificCardData when that is what called it
ReturnAllCards(v) ==
  IF Len(stack) = 1
    THEN /\ Finish(v)
         /\ UNCHANGED ret
    ELSE /\ pc' = "gscd_scan"
         /\ stack' = SubSeq(stack, 1, Len(stack) - 1)
         /\ ret' = v
         /\ UNCHANGED <<result, outcome>>

GetAllCardData_Call ==
  /\ Idle
  /\ \E d \in Decks :
       Enter("getAllCardData", [NoArgs EXCEPT !.deck = d], "gacd_delay")

GetAllCardData_Find ==
  /\ pc = "gacd_find"
  /\ Post("findCards", << >>, "gacd_findAwait")
  /\ UNCHANGED <<stack, args, ret, result, outcome, dirnameDefined,
                 collCopied, mediaCopied>>

\* mutant: the detail-fetch is sent for the first identifier only
GetAllCardData_Found_FirstIdOnly ==
  /\ pc = "gacd_findAwait"
  /\ reply.st # "none"
  /\ IF reply.st = "ok" /\ ~NoCardsFound(reply)
       THEN /\ Post("cardsInfo", <<reply.ids[1]>>, "gacd_infoAwait")
            /\ UNCHANGED <<stack, ret, result, outcome>>
       ELSE /\ ReturnAllCards(EmptyArray)
            /\ UNCHANGED <<log, inflight, reply, lastWire>>
  /\ UNCHANGED <<args, dirnameDefined, collCopied, mediaCopied>>

GetAllCardData_Found ==
  /\ pc = "gacd_findAwait"
  /\ reply.st # "none"
  /\ IF reply.st = "ok" /\ ~NoCardsFound(reply)
       THEN /\ Post("cardsInfo", reply.ids, "gacd_infoAwait")
            /\ UNCHANGED <<stack, ret, result, outcome>>
       ELSE /\ ReturnAllCards(EmptyArray)
            /\ UNCHANGED <<log, inflight, reply, lastWire>>
  /\ UNCHANGED <<args, dirnameDefined, collCopied, mediaCopied>>

GetAllCardData_Fetched ==
  /\ pc = "gacd_infoAwait"
  /\ reply.st # "none"
  /\ IF reply.st = "ok"
       THEN ReturnAllCards(IF reply.isNull THEN Null ELSE CardArray(reply.cards))
       ELSE ReturnAllCards(EmptyArray)
  /\ UNCHANGED <<args, log, inflight, reply, lastWire, dirnameDefined,
                 collCopied, mediaCopied>>

\* ---- getFieldNames ------------------------------------------------------------
\* the array index a property name denotes, -1 when it is not an array index
ArrayIndex(name) ==
  CASE name = "0" -> 0
    [] name = "1" -> 1
    [] name = "2" -> 2
    [] OTHER -> -1

MaxArrayIndex ==
  CHOOSE n \in {ArrayIndex(x) : x \in FieldNames} :
    \A m \in {ArrayIndex(x) : x \in FieldNames} : m <= n

KeyNames(fields) == [i \in DOMAIN fields |-> fields[i].name]

RECURSIVE IndexKeysFrom(_, _)
IndexKeysFrom(names, n) ==
  IF n > MaxArrayIndex
    THEN << >>
    ELSE SelectSeq(names, LAMBDA k : ArrayIndex(k) = n) \o IndexKeysFrom(names, n + 1)

\* mutant: the keys in the order the entries were sent
ObjectKeys_CreationOrder(fields) == KeyNames(fields)

\* Object.keys(fields): own property keys, array indices first in ascending
\* numeric order, then the other string keys in creation order
ObjectKeys(fields) ==
  IndexKeysFrom(KeyNames(fields), 0)
    \o SelectSeq(KeyNames(fields), LAMBDA k : ArrayIndex(k) < 0)

\* Object.keys(cardDetails[0].fields) inside the try block: a null result, an
\* empty array or a first card without fields raises a TypeError, caught
FirstCardFields(r) ==
  IF r.isNull \/ Len(r.cards) = 0 \/ ~r.cards[1].hasFields
    THEN EmptyArray
    ELSE NameArray(ObjectKeys(r.cards[1].fields))

GetFieldNames_Call ==
  /\ Idle
  /\ \E d \in Decks :
       Enter("getFieldNames", [NoArgs EXCEPT !.deck = d], "gfn_delay")

GetFieldNames_Find ==
  /\ pc = "gfn_find"
  /\ Post("findCards", << >>, "gfn_findAwait")
  /\ UNCHANGED <<stack, args, ret, result, outcome, dirnameDefined,
                 collCopied, mediaCopied>>

GetFieldNames_Found ==
  /\ pc = "gfn_findAwait"
  /\ reply.st # "none"
  /\ IF reply.st = "ok" /\ ~NoCardsFound(reply)
       THEN /\ Post("cardsInfo", reply.ids, "gfn_infoAwait")
            /\ UNCHANGED <<stack, result, outcome>>
       ELSE /\ Finish(EmptyArray)
            /\ UNCHANGED <<log, inflight, reply, lastWire>>
  /\ UNCHANGED <<args, ret, dirnameDefined, collCopied, mediaCopied>>

GetFieldNames_Fetched ==
  /\ pc = "gfn_infoAwait"
  /\ reply.st # "none"
  /\ IF reply.st = "ok"
       THEN Finish(FirstCardFields(reply))
       ELSE Finish(EmptyArray)
  /\ UNCHANGED <<args, log, inflight, reply, ret, lastWire, dirnameDefined,
                 collCopied, mediaCopied>>

\* ---- getSpecificCardData -------------------------------------------------------
HasField(fields, f) == \E i \in DOMAIN fields : fields[i].name = f

\* fields[fieldName]?.value
FieldValue(fields, f) ==
  IF HasField(fields, f)
    THEN fields[CHOOSE i \in DOMAIN fields : fields[i].name = f].value
    ELSE "undefined"

\* mutant: card.fields?.[fieldName]?.value, a card without fields is skipped
Predicate_SkipsMalformed(card, f, v) ==
  IF card.hasFields /\ FieldValue(card.fields, f) = v THEN "match" ELSE "miss"

\* (card) => card.fields[fieldName]?.value === searchVal
Predicate(card, f, v) ==
  IF ~card.hasFields THEN "throw"
  ELSE IF FieldValue(card.fields, f) = v THEN "match"
  ELSE "miss"

\* allCards.find(...) || null, with the TypeError of the callback marked
RECURSIVE FindFrom(_, _, _, _)
FindFrom(cards, i, f, v) ==
  IF i > Len(cards) THEN Null
  ELSE IF Predicate(cards[i], f, v) = "throw" THEN Value("throw", << >>, << >>, "")
  ELSE IF Predicate(cards[i], f, v) = "match" THEN OneCard(cards[i])
  ELSE FindFrom(cards, i + 1, f, v)

\* the try block of getSpecificCardData over the value getAllCardData returned
FindCard(allCards, f, v) ==
  IF allCards.t # "array" THEN Null
  ELSE IF FindFrom(allCards.cards, 1, f, v).t = "throw" THEN Null
  ELSE FindFrom(allCards.cards, 1, f, v)

GetSpecificCardData_Call ==
  /\ Idle
  /\ \E d \in Decks, f \in FieldNames, v \in Values :
       Enter("getSpecificCardData",
             [NoArgs EXCEPT !.deck = d, !.fieldName = f, !.searchVal = v],
             "gscd_delay")

\* this.getAllCardData(deckName)
GetSpecificCardData_GetAll ==
  /\ pc = "gscd_call"
  /\ pc' = "gacd_delay"
  /\ stack' = Append(stack, "getAllCardData")
  /\ log' = Append(log, CallEvt("getAllCardData"))
  /\ UNCHANGED <<args, inflight, reply, ret, result, outcome, lastWire,
                 dirnameDefined, collCopied, mediaCopied>>

GetSpecificCardData_Scan ==
  /\ pc = "gscd_scan"
  /\ Finish(FindCard(ret, args.fieldName, args.searchVal))
  /\ UNCHANGED <<args, log, inflight, reply, ret, lastWire, dirnameDefined,
                 collCopied, mediaCopied>>

\* ---- the filesystem ---------------------------------------------------------------
FsResolve ==
  /\ inflight \in FsOps
  /\ reply.st = "none"
  /\ reply' = Resolved
  /\ log' = Append(log, RespEvt(inflight, Resolved))
  /\ collCopied' = (collCopied \/ inflight = "copyFile")
  /\ mediaCopied' = (mediaCopied \/ inflight = "cp")
  /\ UNCHANGED <<pc, stack, args, inflight, ret, result, outcome, lastWire,
                 dirnameDefined>>

FsReject ==
  /\ inflight \in FsOps
  /\ reply.st = "none"
  /\ reply' = Rejected
  /\ log' = Append(log, RespEvt(inflight, Rejected))
  /\ UNCHANGED <<pc, stack, args, inflight, ret, result, outcome, lastWire,
                 dirnameDefined, collCopied, mediaCopied>>

\* ---- addField ---------------------------------------------------------------------
\* if (projectFolder)
Truthy(folder) == folder \in {"nonstring", "string"}

AddField_Call ==
  /\ Idle
  /\ \E d \in Decks, f \in FieldNames, p \in FolderKinds :
       Enter("addField", [NoArgs EXCEPT !.deck = d, !.fieldName = f, !.folder = p],
             "af_post")

\* this._addField(deckName, fieldName) posts at once
AddField_Post ==
  /\ pc = "af_post"
  /\ Post("addFieldToDeck", << >>, "af_await")
  /\ UNCHANGED <<stack, args, ret, result, outcome, dirnameDefined,
                 collCopied, mediaCopied>>

\* mutant: _addField swallows the rejection instead of re-raising it
AddField_Added_NoRethrow ==
  /\ pc = "af_await"
  /\ reply.st # "none"
  /\ IF Truthy(args.folder)
       THEN /\ pc' = "cdp_delay"
            /\ stack' = Append(stack, "copyDeckToProject")
            /\ log' = Append(log, CallEvt("copyDeckToProject"))
            /\ UNCHANGED <<result, outcome>>
       ELSE /\ Finish(Undefined)
            /\ UNCHANGED log
  /\ UNCHANGED <<args, inflight, reply, ret, lastWire, dirnameDefined,
                 collCopied, mediaCopied>>

\* _addField settles: it re-raises a rejection, which addField catches
AddField_Added ==
  /\ pc = "af_await"
  /\ reply.st # "none"
  /\ IF reply.st = "ok" /\ Truthy(args.folder)
       THEN /\ pc' = "cdp_delay"
            /\ stack' = Append(stack, "copyDeckToProject")
            /\ log' = Append(log, CallEvt("copyDeckToProject"))
            /\ UNCHANGED <<result, outcome>>
       ELSE /\ Finish(Undefined)
            /\ UNCHANGED log
  /\ UNCHANGED <<args, inflight, reply, ret, lastWire, dirnameDefined,
                 collCopied, mediaCopied>>

\* ---- copyDeckToProject --------------------------------------------------------------
CopyDeckToProject_Call ==
  /\ Idle
  /\ \E p \in FolderKinds :
       Enter("copyDeckToProject", [NoArgs EXCEPT !.folder = p], "cdp_delay")

\* path.join(__dirname, folderName): a ReferenceError where __dirname is not
\* defined, a TypeError when folderName is not a string
PathsThrow(folder) == ~dirnameDefined \/ folder \notin {"empty", "string"}

\* an error leaves copyDeckToProject: caught when addField called it
Escape ==
  IF stack[1] = "addField" THEN Finish(Undefined) ELSE Throw

\* _copyDeck up to its first await: the paths, then fs.promises.copyFile
CopyDeck_Paths ==
  /\ pc = "cd_paths"
  /\ IF PathsThrow(args.folder)
       THEN /\ Escape
            /\ UNCHANGED <<log, inflight, reply>>
       ELSE /\ pc' = "cd_collAwait"
            /\ log' = Append(log, CopyEvt("copyFile"))
            /\ inflight' = "copyFile"
            /\ reply' = NoReply
            /\ UNCHANGED <<stack, result, outcome>>
  /\ UNCHANGED <<args, ret, lastWire, dirnameDefined, collCopied, mediaCopied>>

\* mutant: the two copies in try blocks of their own, media copied regardless
CopyDeck_CollDone_MediaRegardless ==
  /\ pc = "cd_collAwait"
  /\ reply.st # "none"
  /\ pc' = "cd_mediaAwait"
  /\ log' = Append(log, CopyEvt("cp"))
  /\ inflight' = "cp"
  /\ reply' = NoReply
  /\ UNCHANGED <<stack, result, outcome>>
  /\ UNCHANGED <<args, ret, lastWire, dirnameDefined, collCopied, mediaCopied>>

\* copyFile has settled: on success fs.promises.cp starts, on failure the catch
CopyDeck_CollDone ==
  /\ pc = "cd_collAwait"
  /\ reply.st # "none"
  /\ IF reply.st = "ok"
       THEN /\ pc' = "cd_mediaAwait"
            /\ log' = Append(log, CopyEvt("cp"))
            /\ inflight' = "cp"
            /\ reply' = NoReply
            /\ UNCHANGED <<stack, result, outcome>>
       ELSE /\ Finish(Undefined)
            /\ UNCHANGED <<log, inflight, reply>>
  /\ UNCHANGED <<args, ret, lastWire, dirnameDefined, collCopied, mediaCopied>>

\* cp has settled: logged either way, _copyDeck returns
CopyDeck_MediaDone ==
  /\ pc = "cd_mediaAwait"
  /\ reply.st # "none"
  /\ Finish(Undefined)
  /\ UNCHANGED <<args, log, inflight, reply, ret, lastWire, dirnameDefined,
                 collCopied, mediaCopied>>

Next ==
  \/ Caller_Continue
  \/ Delay
  \/ ServiceRespond
  \/ ServiceReject
  \/ CheckConnection_Call
  \/ CheckConnection_Post
  \/ CheckConnection_Return
  \/ GetAllDeckNames_Call
  \/ GetAllDeckNames_Post
  \/ GetAllDeckNames_Return
  \/ GetAllCardData_Call
  \/ GetAllCardData_Find
  \/ GetAllCardData_Found
  \/ GetAllCardData_Fetched
  \/ GetFieldNames_Call
  \/ GetFieldNames_Find
  \/ GetFieldNames_Found
  \/ GetFieldNames_Fetched
  \/ GetSpecificCardData_Call
  \/ GetSpecificCardData_GetAll
  \/ GetSpecificCardData_Scan
  \/ FsResolve
  \/ FsReject
  \/ AddField_Call
  \/ AddField_Post
  \/ AddField_Added
  \/ CopyDeckToProject_Call
  \/ CopyDeck_Paths
  \/ CopyDeck_CollDone
  \/ CopyDeck_MediaDone

Spec == Init /\ [][Next]_vars

\* ---- what a call did, read off its log ------------------------------------------
Op == args.op

Requests(a) == {i \in DOMAIN log : log[i].k = "req" /\ log[i].a = a}

Responses(a) == {i \in DOMAIN log : log[i].k = "resp" /\ log[i].a = a}

Successes(a) == {i \in Responses(a) : log[i].ok}

Failures(a) == {i \in Responses(a) : ~log[i].ok}

ServiceFailed == \E a \in HttpActions : Failures(a) # {}

CopyStarts(a) == {i \in DOMAIN log : log[i].k = "copy" /\ log[i].a = a}

CopyCalls == {i \in DOMAIN log : log[i].k = "call" /\ log[i].a = "copyDeckToProject"}

Done == pc = "done"

QueryOps == {"checkConnection", "getAllDeckNames", "getAllCardData",
             "getFieldNames", "getSpecificCardData"}

SearchOps == {"getAllCardData", "getFieldNames", "getSpecificCardData"}

\* the card sequence the service answered the detail-fetch with, if it did
GotCards == Successes("cardsInfo") # {} /\ ~reply.isNull

Min(S) == CHOOSE n \in S : \A m \in S : n <= m

\* ---- C1 -------------------------------------------------------------------------
DegradedValue(op) ==
  CASE op = "checkConnection" -> Str(FailureString)
    [] op = "getSpecificCardData" -> Null
    [] OTHER -> EmptyArray

\* C1: a query operation during which a request to the service was rejected
\* never raises and returns its degraded value: the failure string for
\* checkConnection, an empty sequence for getAllDeckNames, getAllCardData (search
\* or detail-fetch rejected) and getFieldNames, null for getSpecificCardData.
C1_DegradedOnServiceFailure ==
  Op \in QueryOps =>
    /\ outcome # "threw"
    /\ (Done /\ ServiceFailed) => (outcome = "returned" /\ result = DegradedValue(Op))

C1_Witness ==
  /\ Done
  /\ Op = "getSpecificCardData"
  /\ Successes("findCards") # {}
  /\ Failures("cardsInfo") # {}
  /\ result = Null

\* ---- C2 -------------------------------------------------------------------------
\* C2: addField and copyDeckToProject never propagate an error to their caller,
\* whichever step fails (field-add request, path computation, collection copy,
\* media copy).
C2_NeverPropagates ==
  Op \in {"addField", "copyDeckToProject"} => outcome # "threw"

\* ---- C3 -------------------------------------------------------------------------
EmptySearch ==
  \E i \in Successes("findCards") : log[i].isNull \/ Len(log[i].ids) = 0

\* C3: when the search answers with an empty or absent result, getAllCardData and
\* getFieldNames issue no detail-fetch request in that call and return an empty
\* sequence.
C3_EmptySearchNoFetch ==
  (Op \in {"getAllCardData", "getFieldNames"} /\ EmptySearch) =>
    /\ Requests("cardsInfo") = {}
    /\ Done => (outcome = "returned" /\ result = EmptyArray)

C3_Witness ==
  /\ Done
  /\ Op = "getFieldNames"
  /\ \E i \in Successes("findCards") : ~log[i].isNull /\ Len(log[i].ids) = 0
  /\ result = EmptyArray

\* ---- C4 -------------------------------------------------------------------------
\* the card has the named field and its value is the searched one
Matches(card) ==
  /\ card.hasFields
  /\ \E i \in DOMAIN card.fields :
       card.fields[i].name = args.fieldName /\ card.fields[i].value = args.searchVal

ReturnedCards == IF GotCards THEN reply.cards ELSE << >>

Matching == {i \in DOMAIN ReturnedCards : Matches(ReturnedCards[i])}

\* matches that the scan reaches: every card before them has a fields mapping
Reached ==
  {i \in Matching : \A j \in 1..(i - 1) : ReturnedCards[j].hasFields}

\* C4 as stated: getSpecificCardData returns the first matching card of the
\* sequence the service returned, whatever the cards before it look like, and
\* null when no card matches or the deck is empty.
C4_FirstMatchAlways ==
  (Done /\ Op = "getSpecificCardData") =>
    /\ outcome = "returned"
    /\ result = IF Matching = {} THEN Null ELSE OneCard(ReturnedCards[Min(Matching)])

\* C4 amended: getSpecificCardData returns the first matching card provided every
\* card before it has a fields mapping (a missing named field is skipped); it
\* returns null when no card matches, when the deck is empty, and when a card
\* without a fields mapping comes before the first match.
C4_FirstMatchBeforeMalformed ==
  (Done /\ Op = "getSpecificCardData") =>
    /\ outcome = "returned"
    /\ result = IF Reached = {} THEN Null ELSE OneCard(ReturnedCards[Min(Reached)])

C4_Witness ==
  /\ Done
  /\ Op = "getSpecificCardData"
  /\ GotCards
  /\ Len(ReturnedCards) = 2
  /\ ReturnedCards[1].hasFields
  /\ ~HasField(ReturnedCards[1].fields, args.fieldName)
  /\ Matches(ReturnedCards[2])
  /\ result = OneCard(ReturnedCards[2])

\* ---- C5 -------------------------------------------------------------------------
FirstKeys == KeyNames(ReturnedCards[1].fields)

Position(s, x) == CHOOSE i \in DOMAIN s : s[i] = x

C6_DelayFirst ==
  \A i \in DOMAIN log :
    log[i].k \in {"req", "copy"} => \E j \in 1..(i - 1) : log[j].k = "delay"

\* ---- C7 -------------------------------------------------------------------------
\* projectFolder supplied: a folder was passed (an empty string selects no folder)
Supplied == args.folder \notin {"undefined", "empty"}

C8_CollectionBeforeMedia ==
  /\ \A i \in CopyStarts("cp") : \E j \in Successes("copyFile") : j < i
  /\ Failures("copyFile") # {} => (CopyStarts("cp") = {} /\ ~collCopied /\ ~mediaCopied)
  /\ collCopied <=> Successes("copyFile") # {}
  /\ mediaCopied <=> Successes("cp") # {}
  /\ mediaCopied => collCopied
  /\ Failures("cp") # {} => (collCopied /\ ~mediaCopied)

C8_Witness ==
  /\ Done
  /\ Op = "copyDeckToProject"
  /\ Failures("cp") # {}
  /\ collCopied
  /\ ~mediaCopied

\* ---- C9 -------------------------------------------------------------------------
\* C9: one call of getAllCardData, getFieldNames or getSpecificCardData issues at
\* most one search and at most one detail-fetch, sends nothing after a failed
\* request, sends the detail-fetch after the search response, with exactly the
\* identifiers the search returned.
C9_OneSearchOneFetch ==
  Op \in SearchOps =>
    /\ Cardinality(Requests("findCards")) <= 1
    /\ Cardinality(Requests("cardsInfo")) <= 1
    /\ \A i \in DOMAIN log : (log[i].k = "resp" /\ ~log[i].ok) =>
         \A j \in DOMAIN log : j > i => log[j].k # "req"
    /\ \A i \in Requests("cardsInfo") :
         \E j \in Successes("findCards") :
           /\ j < i
           /\ ~log[j].isNull
           /\ log[i].ids = log[j].ids

C9_Witness ==
  /\ Done
  /\ Op = "getSpecificCardData"
  /\ \E i \in Requests("cardsInfo") : Len(log[i].ids) = 2 /\ log[i].ids[1] > log[i].ids[2]
  /\ Successes("cardsInfo") # {}

\* ---- C10 ------------------------------------------------------------------------
\* C10: the fixed delay elapses between every two consecutive HTTP requests the
\* client sends, over any sequence of operations invoked one after another.
C10_DelayBetweenRequests ==
  \A i \in Requests("findCards") \cup Requests("cardsInfo") \cup Requests("version")
             \cup Requests("deckNames") \cup Requests("addFieldToDeck") :
    log[i].paced
====
